---- MODULE Spec2Model ----
(***************************************************************************)
(* Model of the dns crate of minecraft_status: nameserver discovery        *)
(* (servers/mod.rs, servers/unix.rs, servers/windows/), the lazily built   *)
(* DNS_SERVERS list, and domain_lookup with its per-nameserver record      *)
(* chase (domain_lookup.rs).                                               *)
(***************************************************************************)
EXTENDS Integers, Sequences, FiniteSets, TLC

(***************************************************************************)
(* Bounds of the model.                                                    *)
(***************************************************************************)
\* frames of domain_lookup_inner the thread's stack holds before it overflows
MaxDepth == 5
\* lines of /etc/resolv.conf
MaxLines == 2
\* adapters GetAdaptersAddresses enumerates
MaxAdapters == 2
\* lines of /etc/resolv.conf when discovery is run on its own
MaxConfLines == 3
\* adapters GetAdaptersAddresses enumerates when discovery is run on its own
MaxEnumerated == 2
\* entries of the env var SERVER of the status service
MaxServers == 2

\* the threads that may call domain_lookup
Calls == {1, 2}
\* file descriptors the process may hold
Fds == {1, 2, 3}

(***************************************************************************)
(* Option values.                                                          *)
(***************************************************************************)
None == [some |-> FALSE, val |-> <<>>]
Some(v) == [some |-> TRUE, val |-> v]

(***************************************************************************)
(* IP addresses and their text form.  An IpAddr is its octets; a string is *)
(* a TLA+ string.  IpAddr::from_str fails on every string that is not the  *)
(* text of an address.                                                     *)
(***************************************************************************)
IpText == { <<"1.1.1.1", <<1, 1, 1, 1>> >>, <<"1.0.0.1", <<1, 0, 0, 1>> >>,
            <<"8.8.8.8", <<8, 8, 8, 8>> >>, <<"9.9.9.9", <<9, 9, 9, 9>> >>,
            <<"10.0.0.1", <<10, 0, 0, 1>> >>, <<"10.0.0.2", <<10, 0, 0, 2>> >> }

\* IpAddr::from_str
IpAddr_from_str(s) ==
    IF \E e \in IpText : e[1] = s
    THEN Some((CHOOSE e \in IpText : e[1] = s)[2])
    ELSE None

\* IpAddr's Display (to_string)
IpAddr_to_string(ip) == (CHOOSE e \in IpText : e[2] = ip)[1]

(***************************************************************************)
(* Unix discovery: servers/unix.rs.  A line of /etc/resolv.conf is a       *)
(* sequence of tokens; the prefix "nameserver " is the two tokens          *)
(* "nameserver" and " ".                                                   *)
(***************************************************************************)
\* a faulty strip_prefix that takes the keyword alone for the prefix
strip_prefix_keyword(line) ==
    IF Len(line) >= 1 /\ line[1] = "nameserver"
    THEN Some(SelectSeq(Tail(line), LAMBDA t : t # " "))
    ELSE None

\* str::strip_prefix("nameserver ")
strip_prefix(line) ==
    IF Len(line) >= 2 /\ line[1] = "nameserver" /\ line[2] = " "
    THEN Some(SubSeq(line, 3, Len(line)))
    ELSE None

\* IpAddr::from_str on the rest of a line: only a single address token parses
ParseRest(rest) ==
    IF Len(rest) = 1 THEN IpAddr_from_str(rest[1]) ELSE None

RECURSIVE CollectServers(_)
\* .lines().filter_map(strip_prefix).filter_map(from_str).collect()
CollectServers(lines) ==
    IF lines = <<>> THEN <<>>
    ELSE LET p == strip_prefix(Head(lines))
             r == IF p.some THEN ParseRest(p.val) ELSE None
         IN  (IF r.some THEN <<r.val>> ELSE <<>>) \o CollectServers(Tail(lines))

\* a faulty find_servers without its length test
AlwaysSome(servers) == Some(servers)

\* what the length test of find_servers lets through
NonEmptyOrNone(servers) == IF Len(servers) > 0 THEN Some(servers) ELSE None

\* unix::find_servers; conf is None when /etc/resolv.conf cannot be read
unix_find_servers(conf) ==
    IF ~conf.some THEN None ELSE NonEmptyOrNone(CollectServers(conf.val))

(***************************************************************************)
(* Windows discovery: servers/windows/mod.rs and adapter_info.rs.          *)
(***************************************************************************)
ERROR_SUCCESS == 0
ERROR_BUFFER_OVERFLOW == 111
AF_INET == 2
AF_INET6 == 23

RECURSIVE read_dns_servers(_)
\* AdapterInfo::read_dns_servers: None at the first entry of another family
read_dns_servers(entries) ==
    IF entries = <<>> THEN Some(<<>>)
    ELSE IF Head(entries).family \notin {AF_INET, AF_INET6} THEN None
    ELSE LET rest == read_dns_servers(Tail(entries))
         IN  IF rest.some THEN Some(<<Head(entries).addr>> \o rest.val) ELSE None

\* AdapterInfo::new
AdapterInfo_new(adapter) ==
    LET s == read_dns_servers(adapter.dns)
    IN  IF s.some
        THEN Some([dns_servers |-> s.val, ipv4_metric |-> adapter.ipv4_metric,
                   ipv6_metric |-> adapter.ipv6_metric])
        ELSE None

RECURSIVE ValidAdapters(_)
\* the traversal of the adapter list: an invalid adapter is logged and skipped
ValidAdapters(list) ==
    IF list = <<>> THEN <<>>
    ELSE LET a == AdapterInfo_new(Head(list))
         IN  (IF a.some THEN <<a.val>> ELSE <<>>) \o ValidAdapters(Tail(list))

Min(a, b) == IF a <= b THEN a ELSE b
\* a faulty sort key that looks at the ipv4 metric alone
MetricKeyIpv4Only(adapter) == adapter.ipv4_metric

\* the sort key of AdapterInfoList::new
MetricKey(adapter) == Min(adapter.ipv4_metric, adapter.ipv6_metric)

\* a faulty AdapterInfoList::new that leaves the adapters as enumerated
SortSkipped(adapters) == {adapters}

\* sort_unstable_by_key: every ordering of the same adapters that ascends by key
SortUnstableByKey(adapters) ==
    LET n == Len(adapters)
        Perms == { p \in [1..n -> 1..n] : \A i, j \in 1..n : i # j => p[i] # p[j] }
    IN  { [i \in 1..n |-> adapters[p[i]]] :
            p \in { q \in Perms : \A i, j \in 1..n :
                       i < j => MetricKey(adapters[q[i]]) <= MetricKey(adapters[q[j]]) } }

\* a faulty get_buffer_size that takes any return code for a size
get_buffer_size_unchecked(rc) == TRUE

\* AdapterInfoList::get_buffer_size: whether the zero-length call told the size
get_buffer_size(rc) == rc = ERROR_BUFFER_OVERFLOW

\* the test of the return code of the sized call
CallSucceeded(rc) == rc = ERROR_SUCCESS

\* AdapterInfoList::new: the set of values it may return
AdapterInfoList_new(env) ==
    IF ~get_buffer_size(env.rc1) THEN {None}
    ELSE IF ~CallSucceeded(env.rc2) THEN {None}
    ELSE { Some(s) : s \in SortUnstableByKey(ValidAdapters(env.adapters)) }

RECURSIVE Flatten(_)
\* AdapterInfoList::dns_servers
Flatten(adapters) ==
    IF adapters = <<>> THEN <<>>
    ELSE Head(adapters).dns_servers \o Flatten(Tail(adapters))

\* windows::find_servers: the set of values it may return
windows_find_servers(env) ==
    { IF l.some THEN NonEmptyOrNone(Flatten(l.val)) ELSE None :
        l \in AdapterInfoList_new(env) }

(***************************************************************************)
(* The environments discovery may meet.                                    *)
(***************************************************************************)
Lines == { <<"nameserver", " ", "8.8.8.8">>, <<"nameserver", " ", "9.9.9.9">>,
           <<"garbage">>, <<"nameserver", " ", " ", "8.8.8.8">>,
           <<"nameserver", "8.8.8.8">> }

SeqsUpTo(S, n) == UNION { [1..k -> S] : k \in 0..n }

ConfFiles == {None} \cup { Some(f) : f \in SeqsUpTo(Lines, MaxLines) }

AdapterShapes ==
    { [ipv4_metric |-> 5, ipv6_metric |-> 7,
       dns |-> <<[family |-> AF_INET, addr |-> <<8, 8, 8, 8>>]>>],
      [ipv4_metric |-> 1, ipv6_metric |-> 9,
       dns |-> <<[family |-> AF_INET, addr |-> <<9, 9, 9, 9>>]>>],
      [ipv4_metric |-> 5, ipv6_metric |-> 5,
       dns |-> <<[family |-> 17, addr |-> <<9, 9, 9, 9>>]>>],
      [ipv4_metric |-> 3, ipv6_metric |-> 3, dns |-> <<>>] }

WindowsEnvs ==
    { [rc1 |-> r1, rc2 |-> r2, adapters |-> a] :
        r1 \in {ERROR_BUFFER_OVERFLOW, ERROR_SUCCESS},
        r2 \in {ERROR_SUCCESS, 232},
        a \in SeqsUpTo(AdapterShapes, MaxAdapters) }

Platforms == {"unix", "windows", "other"}

\* the cfg_if of servers/mod.rs: the values find_servers may return
find_servers(platform) ==
    CASE platform = "unix" -> { unix_find_servers(f) : f \in ConfFiles }
      [] platform = "windows" -> UNION { windows_find_servers(e) : e \in WindowsEnvs }
      [] OTHER -> {None}

\* a faulty dns_servers() that substitutes nothing
dns_servers_no_default(found) == found.val

\* the default servers of dns_servers()
default_servers == << <<1, 1, 1, 1>>, <<1, 0, 0, 1>> >>

\* dns_servers(): find_servers().unwrap_or_else(default servers)
dns_servers(found) == IF found.some THEN found.val ELSE default_servers

\* DEFAULT_DNS_SERVERS of domain_lookup
DEFAULT_DNS_SERVERS == << <<1, 1, 1, 1>>, <<1, 0, 0, 1>> >>

(***************************************************************************)
(* The records the nameservers serve.  A response is the sequence of its   *)
(* answer records.  Every nameserver that answers serves the same records: *)
(* what is served for a question is fixed the first time it is asked.      *)
(***************************************************************************)
Hosts == <<"a.example", "b.example", "c.example", "d.example">>
HostSet == { Hosts[i] : i \in 1..Len(Hosts) }
\* a domain that is already the text of an address
LiteralDomain == "10.0.0.1"
QNames == HostSet \cup {LiteralDomain}
Ports == {25565, 25566}
Requests == [domain : {Hosts[1], LiteralDomain}, port : Ports]

HostIndex(n) == CHOOSE i \in 1..Len(Hosts) : Hosts[i] = n
\* the names a record of n may point to: the next host, the first host
\* (closing a cycle), or the text of an address
Targets(n) ==
    IF n \in HostSet
    THEN {Hosts[1], LiteralDomain}
         \cup (IF HostIndex(n) < Len(Hosts) THEN {Hosts[HostIndex(n) + 1]} ELSE {})
    ELSE {LiteralDomain}

SrvRec(t, p) == [type |-> "SRV", name |-> t, port |-> p, addr |-> <<>>]
ARec(ip) == [type |-> "A", name |-> "", port |-> 0, addr |-> ip]
CnameRec(t) == [type |-> "CNAME", name |-> t, port |-> 0, addr |-> <<>>]

\* the responses a nameserver may give to a question for (n, kind)
Responses(n, kind) ==
    CASE kind = "SRV" -> {<<>>} \cup { <<SrvRec(t, p)>> : t \in Targets(n), p \in Ports }
      [] kind = "A" -> {<<>>, <<ARec(<<10, 0, 0, 2>>)>>,
                        \* a resolver that follows an alias answers with both records
                        <<CnameRec(Hosts[2]), ARec(<<10, 0, 0, 2>>)>>}
      [] OTHER -> {<<>>} \cup { <<CnameRec(t)>> : t \in Targets(n) }

\* a faulty chain of if-lets that asks for the CNAME record before the A record
KindsCnameBeforeA == <<"SRV", "CNAME", "A">>

\* the record kinds, in the order domain_lookup_inner asks for them
Kinds == <<"SRV", "A", "CNAME">>

\* the name message_question! asks for: a name is the sequence of its parts
message_question(domain, kind) ==
    IF kind = "SRV" THEN <<"_minecraft._tcp", domain>> ELSE <<domain>>

\* the question of the k-th find_record! for domain
Question(domain, k) ==
    [name |-> message_question(domain, Kinds[k]), type |-> Kinds[k]]
Questions == { Question(n, k) : n \in QNames, k \in 1..Len(Kinds) }

RECURSIVE find_map(_, _)
\* answers.iter().find_map(..): the first answer of the record type asked for
find_map(answers, kind) ==
    IF answers = <<>> THEN None
    ELSE IF Head(answers).type = kind THEN Some(Head(answers))
    ELSE find_map(Tail(answers), kind)

(***************************************************************************)
(* Results.                                                                *)
(***************************************************************************)
Ok(ip, port) == [ok |-> TRUE, ip |-> ip, port |-> port, err |-> ""]
Err(e) == [ok |-> FALSE, ip |-> <<>>, port |-> 0, err |-> e]
NoValidRecords == "no valid records"
AllServersFailed == "no valid records on any DNS servers"
TransportErrors == {"send", "recv", "parse"}
\* the class of the error of a failed attempt
ErrorClass(e) == IF e = NoValidRecords THEN "norecords" ELSE "transport"

(***************************************************************************)
(* State.                                                                  *)
(***************************************************************************)
VARIABLES
    dnsState,       \* lazy_static DNS_SERVERS: "uninit", "running", "ready"
    dnsServers,     \* the value of DNS_SERVERS once built
    found,          \* what find_servers returned to dns_servers()
    discoveryRuns,  \* how many times dns_servers() has been entered
    callers,        \* the threads that call domain_lookup
    req,            \* req[c]: the (domain, port) thread c asks for
    cs,             \* cs[c]: where thread c is in domain_lookup
    held,           \* held[c]: the sockets thread c has opened and not released
    zone,           \* zone[q]: the response served to question q, once known
    aborted,        \* the process died of a stack overflow
    disc,           \* a run of find_servers() on its own: its input and progress
    svc             \* the status service: its config, status map, tasks, handlers

lookupVars == <<dnsState, dnsServers, found, discoveryRuns, callers, req, cs, held,
                zone, aborted>>
vars == <<lookupVars, disc, svc>>

\* no status service
NoService ==
    [main |-> "none", config |-> <<>>, spawned |-> 0, status |-> <<>>,
     tasks |-> <<>>, readers |-> {}, handlers |-> <<>>]

\* no run of find_servers() on its own
NoDiscovery ==
    [platform |-> "none", conf |-> None, adapters |-> <<>>, pc |-> "idle",
     calls |-> <<>>, visited |-> 0, result |-> None]

\* sent: the questions the current attempt has handed to its socket, each
\* with the socket and the hop of the chase; ret: what the last attempt
\* returned, an error by its class; trail: the records the attempt adopted;
\* log: the attempts of the call; seen: the DNS_SERVERS the call read
IdleCall ==
    [pc |-> "idle", tier |-> 0, idx |-> 0, servers |-> <<>>, sock |-> 0,
     name |-> "", port |-> 0, kind |-> 1, trail |-> <<>>, sent |-> <<>>,
     ret |-> Err(""), log |-> <<>>, failures |-> {}, seen |-> None,
     result |-> Err("")]

\* who calls, what they ask for, and what is known of the records at the start
InitWith(who, requests, zones) ==
    /\ dnsState = "uninit"
    /\ dnsServers = <<>>
    /\ found = None
    /\ discoveryRuns = 0
    /\ callers = who
    /\ req \in requests
    /\ cs = [c \in Calls |-> IdleCall]
    /\ held = [c \in Calls |-> {}]
    /\ zone \in zones
    /\ aborted = FALSE

\* nothing is known yet of what the nameservers serve
UnknownZone == [q \in Questions |-> None]
\* no name has any record
EmptyZone == [q \in Questions |-> Some(<<>>)]

\* one thread calls domain_lookup
Init ==
    /\ InitWith({1}, { [c \in Calls |-> r] : r \in Requests }, {UnknownZone})
    /\ disc = NoDiscovery
    /\ svc = NoService

\* two threads call domain_lookup concurrently, over records fixed beforehand
ConcZones ==
    { EmptyZone,
      [EmptyZone EXCEPT ![Question(Hosts[1], 2)] = Some(<<ARec(<<10, 0, 0, 2>>)>>)],
      [EmptyZone EXCEPT ![Question(Hosts[1], 1)] =
                            Some(<<SrvRec(LiteralDomain, 25566)>>)] }

InitConc ==
    /\ InitWith(Calls, { [c \in Calls |-> [domain |-> Hosts[1], port |-> 25565]] },
                ConcZones)
    /\ disc = NoDiscovery
    /\ svc = NoService

(***************************************************************************)
(* domain_lookup_with_servers and domain_lookup: what follows the end of   *)
(* one attempt.                                                            *)
(***************************************************************************)
\* a faulty iterator that steps over every other server
NextServerIndexSkipping(i) == i + 2

\* the iterator of domain_lookup_with_servers moves to the following server
NextServerIndex(i) == i + 1

RECURSIVE EnterTier(_, _, _)
\* a faulty domain_lookup that returns the first tier's error as it is
TierEndedNoFallback(st, r) == [st EXCEPT !.pc = "done", !.result = r]

\* a faulty domain_lookup that runs the default servers after a success too
TierEndedAlwaysFallback(st, r) ==
    IF st.tier = 2
    THEN [st EXCEPT !.pc = "done", !.result = r]
    ELSE EnterTier(st, 2, DEFAULT_DNS_SERVERS)

\* a faulty domain_lookup that does not try the default servers again when
\* DNS_SERVERS was that very list
TierEndedSkipSameList(st, r) ==
    IF r.ok \/ st.tier = 2 \/ st.servers = DEFAULT_DNS_SERVERS
    THEN [st EXCEPT !.pc = "done", !.result = r]
    ELSE EnterTier(st, 2, DEFAULT_DNS_SERVERS)

\* domain_lookup_with_servers over list, as tier t (1: DNS_SERVERS, 2: defaults)
\* returned r
TierEnded(st, r) ==
    IF r.ok \/ st.tier = 2
    THEN [st EXCEPT !.pc = "done", !.result = r]
    ELSE EnterTier(st, 2, DEFAULT_DNS_SERVERS)

EnterTier(st, t, list) ==
    LET at == [st EXCEPT !.tier = t, !.servers = list, !.idx = NextServerIndex(0)]
    IN  IF at.idx <= Len(list)
        THEN [at EXCEPT !.pc = "attempt"]
        ELSE TierEnded(at, Err(AllServersFailed))

\* a faulty loop that hands the error of an attempt to the caller
WithServersStepPropagating(st, r) ==
    IF r.ok THEN TierEnded(st, r) ELSE [st EXCEPT !.pc = "done", !.result = r]

\* the closure of filter_map and .next(): r is what domain_lookup_individual
\* returned for servers[idx]
WithServersStep(st, r) ==
    IF r.ok THEN TierEnded(st, r)
    ELSE IF NextServerIndex(st.idx) <= Len(st.servers)
    THEN [st EXCEPT !.idx = NextServerIndex(st.idx), !.pc = "attempt"]
    ELSE TierEnded(st, Err(AllServersFailed))

\* a faulty attempt that keeps its socket when it fails
ReleaseOnSuccessOnly(sockets, fd, r) == IF r.ok THEN sockets \ {fd} ELSE sockets

\* the socket of an attempt is dropped when domain_lookup_individual returns
Release(sockets, fd, r) == sockets \ {fd}

\* domain_lookup_individual returned r
AttemptEnded(st, r) ==
    WithServersStep(
        [st EXCEPT !.log[Len(st.log)].outcome = IF r.ok THEN "ok" ELSE "err",
                   !.failures = IF r.ok THEN @ ELSE @ \cup {ErrorClass(r.err)},
                   !.log[Len(st.log)].answer =
                       IF r.ok THEN <<r.ip, r.port>> ELSE <<>>,
                   !.ret = IF r.ok THEN r ELSE Err(ErrorClass(r.err)),
                   !.sock = 0], r)

(***************************************************************************)
(* Actions.                                                                *)
(***************************************************************************)
\* a thread calls domain_lookup(domain, port)
Call(c) ==
    /\ ~aborted /\ c \in callers /\ cs[c].pc = "idle"
    /\ cs' = [cs EXCEPT ![c].pc = "deref"]
    /\ UNCHANGED <<dnsState, dnsServers, found, discoveryRuns, callers, req, held,
                   zone, aborted, disc, svc>>

\* a faulty Once that lets a second thread in while the first initialises
NeedsInitRacy(state) == state # "ready"

\* Once: whether this dereference of DNS_SERVERS runs the initialiser
NeedsInit(state) == state = "uninit"

\* the first dereference of DNS_SERVERS enters dns_servers()
BeginInit(c) ==
    /\ ~aborted /\ cs[c].pc = "deref" /\ NeedsInit(dnsState)
    /\ dnsState' = "running"
    /\ discoveryRuns' = discoveryRuns + 1
    /\ cs' = [cs EXCEPT ![c].pc = "init"]
    /\ UNCHANGED <<dnsServers, found, callers, req, held, zone, aborted, disc, svc>>

\* dns_servers() returns and the list is stored
FinishInit(c) ==
    /\ ~aborted /\ cs[c].pc = "init"
    /\ \E p \in Platforms : \E f \in find_servers(p) :
          /\ found' = f
          /\ dnsServers' = dns_servers(f)
    /\ dnsState' = "ready"
    /\ cs' = [cs EXCEPT ![c].pc = "deref"]
    /\ UNCHANGED <<discoveryRuns, callers, req, held, zone, aborted, disc, svc>>

\* domain_lookup starts domain_lookup_with_servers over DNS_SERVERS
ReadServers(c) ==
    /\ ~aborted /\ cs[c].pc = "deref" /\ dnsState = "ready"
    /\ cs' = [cs EXCEPT ![c] = EnterTier([@ EXCEPT !.seen = Some(dnsServers)],
                                          1, dnsServers)]
    /\ UNCHANGED <<dnsState, dnsServers, found, discoveryRuns, callers, req, held,
                   zone, aborted, disc, svc>>

AllHeld == UNION { held[c] : c \in Calls }
\* UdpSocket::bind: the descriptor the system hands out
NewSocket(inUse) == CHOOSE fd \in Fds \ inUse : \A g \in Fds \ inUse : fd <= g

\* a faulty attempt that returns a domain that is the text of an address as it
\* is, without asking the nameserver
EnterChaseLiteralFirst(st, fd, domain, port) ==
    IF IpAddr_from_str(domain).some
    THEN AttemptEnded([st EXCEPT !.sock = fd],
                      Ok(IpAddr_from_str(domain).val, port))
    ELSE [st EXCEPT !.pc = "query", !.sock = fd, !.name = domain, !.port = port,
                    !.kind = 1, !.trail = <<>>]

\* a faulty attempt that goes on from the name and port the last attempt had
\* reached
EnterChaseCarryOver(st, fd, domain, port) ==
    [st EXCEPT !.pc = "query", !.sock = fd,
               !.name = IF st.trail # <<>> THEN st.name ELSE domain,
               !.port = IF st.trail # <<>> THEN st.port ELSE port,
               !.kind = 1, !.trail = <<>>]

\* domain_lookup_individual calls domain_lookup_inner(&socket, domain, port)
EnterChase(st, fd, domain, port) ==
    [st EXCEPT !.pc = "query", !.sock = fd, !.name = domain, !.port = port,
               !.kind = 1, !.trail = <<>>]

\* domain_lookup_individual up to its call of domain_lookup_inner
StartAttempt(c) ==
    LET st == cs[c]
        logged == [st EXCEPT !.log = Append(@, [tier |-> st.tier,
                                                 server |-> st.servers[st.idx],
                                                 outcome |-> "pending",
                                                 answer |-> <<>>]),
                             !.sent = <<>>, !.ret = Err("")]
    IN  /\ ~aborted /\ st.pc = "attempt"
        /\ \/ \* bind fails: no socket was opened
              /\ cs' = [cs EXCEPT ![c] = AttemptEnded(logged, Err("bind"))]
              /\ held' = held
           \/ \* set_read_timeout or connect fails: the socket is dropped
              /\ Fds \ AllHeld # {}
              /\ cs' = [cs EXCEPT ![c] = AttemptEnded(logged, Err("connect"))]
              /\ held' = [held EXCEPT ![c] =
                            Release(@ \cup {NewSocket(AllHeld)}, NewSocket(AllHeld),
                                    Err("connect"))]
           \/ /\ Fds \ AllHeld # {}
              /\ cs' = [cs EXCEPT ![c] =
                          EnterChase(logged, NewSocket(AllHeld), req[c].domain,
                                     req[c].port)]
              /\ held' = [held EXCEPT ![c] = @ \cup {NewSocket(AllHeld)}]
        /\ UNCHANGED <<dnsState, dnsServers, found, discoveryRuns, callers, req,
                       zone, aborted, disc, svc>>

\* a faulty chase that keeps the requested port when it adopts an SRV record
AdoptSrvKeepsPort(kind, rec, port) ==
    CASE Kinds[kind] = "SRV" -> <<rec.name, port>>
      [] Kinds[kind] = "A" -> <<IpAddr_to_string(rec.addr), port>>
      [] OTHER -> <<rec.name, port>>

\* a faulty chase that falls back to port 25565 when it adopts an A record
AdoptADefaultPort(kind, rec, port) ==
    CASE Kinds[kind] = "SRV" -> <<rec.name, rec.port>>
      [] Kinds[kind] = "A" -> <<IpAddr_to_string(rec.addr), 25565>>
      [] OTHER -> <<rec.name, port>>

\* a faulty chase that falls back to port 25565 when it follows a CNAME record
AdoptCnameDefaultPort(kind, rec, port) ==
    CASE Kinds[kind] = "SRV" -> <<rec.name, rec.port>>
      [] Kinds[kind] = "A" -> <<IpAddr_to_string(rec.addr), port>>
      [] OTHER -> <<rec.name, 25565>>

\* a faulty chase that takes the port of an SRV record only while it still has
\* the port 25565
AdoptSrvPortOnce(kind, rec, port) ==
    CASE Kinds[kind] = "SRV" -> <<rec.name, IF port = 25565 THEN rec.port ELSE port>>
      [] Kinds[kind] = "A" -> <<IpAddr_to_string(rec.addr), port>>
      [] OTHER -> <<rec.name, port>>

\* what the chase adopts from a record: (name, port)
Adopt(kind, rec, port) ==
    CASE Kinds[kind] = "SRV" -> <<rec.name, rec.port>>
      [] Kinds[kind] = "A" -> <<IpAddr_to_string(rec.addr), port>>
      [] OTHER -> <<rec.name, port>>

\* a faulty chain of if-lets that gives up after the A query
NoMoreKindsAfterA(k) == k >= 2

\* the else of the if-let chain: no find_record! is left for this name
NoMoreKinds(k) == k = Len(Kinds)

\* a faulty attempt on a socket without read timeout: a recv whose packet was
\* lost waits for ever
QueryFailedRecvWaits(st, e) ==
    IF e = "recv" THEN [st EXCEPT !.pc = "recv"] ELSE AttemptEnded(st, Err(e))

\* the ? of find_record!: send, recv (at the latest when the read timeout of
\* five seconds is over) or Message::from_slice returned the error e
QueryFailed(st, e) == AttemptEnded(st, Err(e))

\* a faulty find_record! that takes a packet for the answer only when it
\* repeats the question it had sent, and reads any other packet as empty
AcceptedIfEchoed(answers, re, q) == IF re = q THEN answers ELSE <<>>

\* the answers find_record! works with: those of the packet read by recv,
\* whatever question that packet repeats (re) and whatever was asked (q)
Accepted(answers, re, q) == answers

\* one find_record! of domain_lookup_inner whose recv has read a packet with
\* these answers, repeating the question re, and what follows it up to the next
Exchange(c, answers, re) ==
    LET st == cs[c]
        \* the question handed to socket.send, and the packet read by recv
        packet == [q |-> Question(st.name, st.kind), sock |-> st.sock,
                   hop |-> Len(st.trail) + 1, re |-> Some(re)]
        asked == [st EXCEPT !.sent = Append(@, packet)]
        rec == find_map(Accepted(answers, re, packet.q), Kinds[st.kind])
        got == Adopt(st.kind, rec.val, st.port)
        ip == IpAddr_from_str(got[1])
        step == [kind |-> Kinds[st.kind], name |-> st.name,
                 to |-> got[1], port |-> got[2]]
        adopted == [asked EXCEPT !.trail = Append(@, step)]
    IN  IF ~rec.some
        THEN IF ~NoMoreKinds(st.kind)
             THEN /\ cs' = [cs EXCEPT ![c] =
                              [asked EXCEPT !.kind = st.kind + 1]]
                  /\ UNCHANGED <<held, aborted>>
             ELSE /\ cs' = [cs EXCEPT ![c] =
                              AttemptEnded(asked, Err(NoValidRecords))]
                  /\ held' = [held EXCEPT ![c] =
                                Release(@, st.sock, Err(NoValidRecords))]
                  /\ UNCHANGED aborted
        ELSE IF ip.some
        THEN /\ cs' = [cs EXCEPT ![c] =
                         AttemptEnded(adopted, Ok(ip.val, got[2]))]
             /\ held' = [held EXCEPT ![c] =
                           Release(@, st.sock, Ok(ip.val, got[2]))]
             /\ UNCHANGED aborted
        ELSE IF Len(adopted.trail) >= MaxDepth
        THEN \* the recursion has used up the stack
             /\ cs' = [cs EXCEPT ![c] = [adopted EXCEPT !.pc = "overflow"]]
             /\ aborted' = TRUE
             /\ held' = [d \in Calls |-> {}]
        ELSE /\ cs' = [cs EXCEPT ![c] =
                         [adopted EXCEPT !.name = got[1], !.port = got[2],
                                         !.kind = 1]]
             /\ UNCHANGED <<held, aborted>>

\* one find_record! of domain_lookup_inner, answered by the nameserver or not
\* at all, and what follows it up to the next
FindRecord(c) ==
    LET st == cs[c]
        known == zone[Question(st.name, st.kind)]
        \* the question handed to socket.send; no packet was read and parsed
        packet == [q |-> Question(st.name, st.kind), sock |-> st.sock,
                   hop |-> Len(st.trail) + 1, re |-> None]
        asked == [st EXCEPT !.sent = Append(@, packet)]
    IN  /\ ~aborted /\ st.pc = "query"
        /\ \/ \* send, recv (timeout) or Message::from_slice fails
              /\ \E e \in TransportErrors :
                    /\ cs' = [cs EXCEPT ![c] = QueryFailed(asked, e)]
                    /\ held' = [held EXCEPT ![c] = Release(@, st.sock, Err(e))]
              /\ UNCHANGED <<zone, aborted>>
           \/ \E answers \in (IF known.some THEN {known.val}
                              ELSE Responses(st.name, Kinds[st.kind])) :
                /\ zone' = [zone EXCEPT ![Question(st.name, st.kind)] = Some(answers)]
                /\ Exchange(c, answers, Question(st.name, st.kind))
        /\ UNCHANGED <<dnsState, dnsServers, found, discoveryRuns, callers, req,
                       disc, svc>>

\* the packets that may reach the socket although they answer another
\* question than the one just sent (q): answers the nameservers have for
\* another name, with a record of the kind asked for (any other packet is
\* read like an answer without records)
StrayPackets(q) ==
    { p \in Questions : /\ p # q /\ zone[p].some
                        /\ find_map(zone[p].val, q.type).some }

\* one find_record! of domain_lookup_inner whose recv reads a packet that
\* answers another question
ReceiveStray(c) ==
    LET st == cs[c]
    IN  /\ ~aborted /\ st.pc = "query"
        /\ \E p \in StrayPackets(Question(st.name, st.kind)) :
              Exchange(c, zone[p].val, p)
        /\ UNCHANGED <<dnsState, dnsServers, found, discoveryRuns, callers, req,
                       zone, disc, svc>>

Next ==
    \E c \in Calls :
        \/ Call(c)
        \/ BeginInit(c)
        \/ FinishInit(c)
        \/ ReadServers(c)
        \/ StartAttempt(c)
        \/ FindRecord(c)

Spec == Init /\ [][Next]_vars

SpecConc == InitConc /\ [][Next]_vars

\* records fixed beforehand, among them answers to other questions than those
\* of the chase of Hosts[1]
WireZones ==
    { [EmptyZone EXCEPT ![Question(Hosts[1], 3)] = Some(<<CnameRec(Hosts[2])>>),
                        ![Question(Hosts[2], 2)] = Some(<<ARec(<<10, 0, 0, 2>>)>>),
                        ![Question(Hosts[3], 1)] =
                            Some(<<SrvRec(Hosts[2], 25566)>>)] }

InitWire ==
    /\ InitWith({1}, { [c \in Calls |-> [domain |-> Hosts[1], port |-> 25565]] },
                WireZones)
    /\ disc = NoDiscovery
    /\ svc = NoService

\* the lookup over a network that also delivers packets that answer another
\* question than the one just sent
NextWire ==
    \/ Next
    \/ \E c \in Calls : ReceiveStray(c)

SpecWire == InitWire /\ [][NextWire]_vars

\* records fixed beforehand: a chain through all hosts, an alias without
\* address, no records at all, and a cycle of two aliases
LiveZones ==
    { [EmptyZone EXCEPT ![Question(Hosts[1], 1)] = Some(<<SrvRec(Hosts[2], 25566)>>),
                        ![Question(Hosts[2], 3)] = Some(<<CnameRec(Hosts[3])>>),
                        ![Question(Hosts[3], 3)] = Some(<<CnameRec(Hosts[4])>>),
                        ![Question(Hosts[4], 2)] = Some(<<ARec(<<10, 0, 0, 2>>)>>)],
      [EmptyZone EXCEPT ![Question(Hosts[1], 3)] = Some(<<CnameRec(Hosts[2])>>)],
      EmptyZone,
      [EmptyZone EXCEPT ![Question(Hosts[1], 3)] = Some(<<CnameRec(Hosts[2])>>),
                        ![Question(Hosts[2], 3)] = Some(<<CnameRec(Hosts[1])>>)] }

InitLive ==
    /\ InitWith({1}, { [c \in Calls |-> [domain |-> Hosts[1], port |-> 25565]] },
                LiveZones)
    /\ disc = NoDiscovery
    /\ svc = NoService

\* the calling thread keeps running: every step of the lookup that can be
\* taken is taken (send returns, recv returns with a packet or at the read
\* timeout)
SpecLive == InitLive /\ [][Next]_vars /\ WF_vars(Next)

(***************************************************************************)
(* find_servers() run on its own, over any configuration of the system.    *)
(***************************************************************************)
\* the lines /etc/resolv.conf may hold
ResolvConfLines == Lines \cup { <<"nameserver", " ", "1.1.1.1">> }

ResolvConfs ==
    {None} \cup { Some(f) : f \in SeqsUpTo(ResolvConfLines, MaxConfLines) }

\* an adapter of the system: its metrics and the address family of each of
\* its DNS entries
EnumeratedShapes ==
    { [ipv4_metric |-> 5, ipv6_metric |-> 7, families |-> <<AF_INET>>],
      [ipv4_metric |-> 1, ipv6_metric |-> 9, families |-> <<AF_INET, AF_INET6>>],
      [ipv4_metric |-> 5, ipv6_metric |-> 0, families |-> <<AF_INET6>>],
      [ipv4_metric |-> 1, ipv6_metric |-> 1, families |-> <<AF_INET, 17>>],
      [ipv4_metric |-> 3, ipv6_metric |-> 3, families |-> <<>>] }

\* the linked list GetAdaptersAddresses fills in: entry e of adapter i has the
\* address 10.0.i.e, so that every entry of the system has its own address
Enumerated(shapes) ==
    [i \in 1..Len(shapes) |->
        [ipv4_metric |-> shapes[i].ipv4_metric,
         ipv6_metric |-> shapes[i].ipv6_metric,
         dns |-> [e \in 1..Len(shapes[i].families) |->
                     [family |-> shapes[i].families[e], addr |-> <<10, 0, i, e>>]]]]

\* a call that succeeds has found at least one adapter
AdapterLists ==
    { Enumerated(sh) : sh \in SeqsUpTo(EnumeratedShapes, MaxEnumerated) \ {<<>>} }

\* the codes GetAdaptersAddresses may return (232: ERROR_NO_DATA)
ReturnCodes == {ERROR_SUCCESS, ERROR_BUFFER_OVERFLOW, 232}

InitDiscovery ==
    /\ InitWith({}, { [c \in Calls |-> [domain |-> Hosts[1], port |-> 25565]] },
                {UnknownZone})
    /\ disc \in { [NoDiscovery EXCEPT !.platform = "unix", !.conf = f, !.pc = "start"] :
                    f \in ResolvConfs }
          \cup { [NoDiscovery EXCEPT !.platform = "windows", !.adapters = a,
                                     !.pc = "start"] : a \in AdapterLists }
          \cup { [NoDiscovery EXCEPT !.platform = "other", !.pc = "start"] }
    /\ svc = NoService

\* find_servers() returned r
Discovered(d, r) == [d EXCEPT !.pc = "done", !.result = r]

\* unix::find_servers
UnixFindServers ==
    /\ disc.pc = "start" /\ disc.platform = "unix"
    /\ disc' = Discovered(disc, unix_find_servers(disc.conf))
    /\ UNCHANGED <<lookupVars, svc>>

\* find_servers of a platform that is neither unix nor windows
OtherFindServers ==
    /\ disc.pc = "start" /\ disc.platform = "other"
    /\ disc' = Discovered(disc, None)
    /\ UNCHANGED <<lookupVars, svc>>

\* AdapterInfoList::get_buffer_size: the call with a buffer of length zero
GetBufferSize ==
    /\ disc.pc = "start" /\ disc.platform = "windows"
    /\ \E rc \in ReturnCodes :
          LET called == [disc EXCEPT !.calls = Append(@, [buf_len |-> "zero", rc |-> rc])]
          IN  disc' = IF get_buffer_size(rc)
                      THEN [called EXCEPT !.pc = "sized"]
                      ELSE Discovered(called, None)
    /\ UNCHANGED <<lookupVars, svc>>

\* AdapterInfoList::new from its second call of GetAdaptersAddresses to its
\* return, and what windows::find_servers makes of it
GetAdapters ==
    /\ disc.pc = "sized"
    /\ \E rc \in ReturnCodes :
          LET called == [disc EXCEPT !.calls = Append(@, [buf_len |-> "sized", rc |-> rc])]
          IN  IF ~CallSucceeded(rc)
              THEN disc' = Discovered(called, None)
              ELSE \E sorted \in SortUnstableByKey(ValidAdapters(disc.adapters)) :
                      disc' = Discovered([called EXCEPT !.visited = Len(disc.adapters)],
                                         NonEmptyOrNone(Flatten(sorted)))
    /\ UNCHANGED <<lookupVars, svc>>

NextDiscovery ==
    \/ UnixFindServers
    \/ OtherFindServers
    \/ GetBufferSize
    \/ GetAdapters

SpecDiscovery == InitDiscovery /\ [][NextDiscovery]_vars

(***************************************************************************)
(* The status service (minecraft_status/src/main.rs): the shared status    *)
(* map, one refresh task per configured server, and the HTTP handlers.     *)
(***************************************************************************)
\* the entries of the env var SERVER, each a text of tokens
ServerTexts == { <<"a.example">>, <<"a.example", ":", "25566">> }

\* str::split_once(':'): the text before and after the first ':', if any
split_once(text) ==
    IF \E i \in 1..Len(text) : text[i] = ":"
    THEN LET at == CHOOSE i \in 1..Len(text) :
                      text[i] = ":" /\ \A j \in 1..(i - 1) : text[j] # ":"
         IN  Some(<<SubSeq(text, 1, at - 1), SubSeq(text, at + 1, Len(text))>>)
    ELSE None

\* port.parse::<u16>() of the texts that occur
parse_port(text) == IF text = <<"25566">> THEN Some(25566) ELSE None

\* Server::parse, for an entry whose domain_lookup returned the address
\* 10.0.0.2 and left the port as it was
Server_parse(server_port) ==
    LET parts == split_once(server_port)
        port == IF parts.some /\ parse_port(parts.val[2]).some
                THEN parse_port(parts.val[2]).val ELSE 25565
    IN  [server |-> server_port, ip |-> <<10, 0, 0, 2>>, port |-> port]

\* Config::from_env_vars: the servers of the entries of SERVER
Configs ==
    { [i \in 1..Len(entries) |-> Server_parse(entries[i])] :
        entries \in SeqsUpTo(ServerTexts, MaxServers) \ {<<>>} }

\* the tasks that may serve HTTP requests at the same time
Handlers == {1, 2}
\* what update_status makes of the two queries: no answer, or a response
Statuses == {None, Some("java"), Some("bedrock")}

RECURSIVE collect(_, _)
\* .map(|server| (server.server.clone(), None)).collect() into a HashMap
collect(servers, map) ==
    IF servers = <<>> THEN map
    ELSE LET key == Head(servers).server
         IN  collect(Tail(servers),
                     [k \in DOMAIN map \cup {key} |->
                        IF k = key THEN None ELSE map[k]])

\* a faulty update_status that inserts under the name without its port
InsertKeyWithoutPort(server) ==
    IF split_once(server.server).some
    THEN split_once(server.server).val[1] ELSE server.server

\* the key update_status inserts under
InsertKey(server) == server.server

\* HashMap::insert
insert(map, key, value) ==
    [k \in DOMAIN map \cup {key} |-> IF k = key THEN value ELSE map[k]]

\* HashMap::get
get(map, key) == IF key \in DOMAIN map THEN Some(map[key]) ELSE None

\* server: the name of the route; out: the response serve_single_status got,
\* or the names in the clone serve_all_status took
IdleHandler == [pc |-> "idle", server |-> <<>>, out |-> None]

InitStatus ==
    /\ InitWith({}, { [c \in Calls |-> [domain |-> Hosts[1], port |-> 25565]] },
                {UnknownZone})
    /\ disc = NoDiscovery
    /\ svc \in { [NoService EXCEPT !.main = "start", !.config = config,
                                   !.handlers = [h \in Handlers |-> IdleHandler]] :
                   config \in Configs }

\* main: the shared status is created and filled from the config
CreateStatus ==
    /\ svc.main = "start"
    /\ svc' = [svc EXCEPT !.main = "spawn",
                          !.status = collect(svc.config, <<>>),
                          !.tasks = [i \in 1..Len(svc.config) |->
                                        [pc |-> "unborn", new |-> None]]]
    /\ UNCHANGED <<lookupVars, disc>>

\* main: spawn_blocking of the refresh loop of the next server, and, after the
\* last, the router with its routes is built and served
SpawnRefresh ==
    /\ svc.main = "spawn"
    /\ IF svc.spawned < Len(svc.config)
       THEN svc' = [svc EXCEPT !.spawned = @ + 1, !.tasks[svc.spawned + 1].pc = "query"]
       ELSE svc' = [svc EXCEPT !.main = "serve"]
    /\ UNCHANGED <<lookupVars, disc>>

\* update_status up to its write: query_java, then query_bedrock, else None
UpdateQuery(i) ==
    /\ svc.tasks[i].pc = "query"
    /\ \E new_status \in Statuses :
          svc' = [svc EXCEPT !.tasks[i] = [pc |-> "write", new |-> new_status]]
    /\ UNCHANGED <<lookupVars, disc>>

\* status.write().unwrap().insert(..): the write lock is taken when no read
\* guard is out, and dropped at the end of the statement
UpdateWrite(i) ==
    /\ svc.tasks[i].pc = "write"
    /\ svc.readers = {}
    /\ svc' = [svc EXCEPT !.status = insert(@, InsertKey(svc.config[i]),
                                            svc.tasks[i].new),
                          !.tasks[i] = [pc |-> "sleep", new |-> None]]
    /\ UNCHANGED <<lookupVars, disc>>

\* std::thread::sleep(config.refresh_interval) is over
Wake(i) ==
    /\ svc.tasks[i].pc = "sleep"
    /\ svc' = [svc EXCEPT !.tasks[i].pc = "query"]
    /\ UNCHANGED <<lookupVars, disc>>

\* serve_all_status up to its clone of the map, under a read guard dropped
\* at the end of the statement
ServeAllClone(h) ==
    /\ svc.main = "serve" /\ svc.handlers[h].pc = "idle"
    /\ svc' = [svc EXCEPT !.handlers[h] = [pc |-> "render_all", server |-> <<>>,
                                           out |-> Some(DOMAIN svc.status)]]
    /\ UNCHANGED <<lookupVars, disc>>

\* serve_single_status on the route of a configured server, up to
\* read.get(&server).unwrap()
ServeSingleGet(h) ==
    /\ svc.main = "serve" /\ svc.handlers[h].pc = "idle"
    /\ \E i \in 1..Len(svc.config) :
          LET server == svc.config[i].server
              response == get(svc.status, server)
          IN  svc' = IF response.some
                     THEN [svc EXCEPT !.readers = @ \cup {h},
                                      !.handlers[h] = [pc |-> "render",
                                                       server |-> server,
                                                       out |-> response]]
                     ELSE \* unwrap of None: the handler panics, its guard is dropped
                          [svc EXCEPT !.handlers[h] = [pc |-> "panicked",
                                                       server |-> server,
                                                       out |-> None]]
    /\ UNCHANGED <<lookupVars, disc>>

\* either handler renders its page and returns; serve_single_status drops
\* its read guard
Render(h) ==
    /\ svc.handlers[h].pc \in {"render", "render_all"}
    /\ svc' = [svc EXCEPT !.readers = @ \ {h}, !.handlers[h] = IdleHandler]
    /\ UNCHANGED <<lookupVars, disc>>

NextStatus ==
    \/ CreateStatus
    \/ SpawnRefresh
    \/ \E i \in 1..Len(svc.tasks) : UpdateQuery(i)
    \/ \E i \in 1..Len(svc.tasks) : UpdateWrite(i)
    \/ \E i \in 1..Len(svc.tasks) : Wake(i)
    \/ \E h \in Handlers : ServeAllClone(h)
    \/ \E h \in Handlers : ServeSingleGet(h)
    \/ \E h \in Handlers : Render(h)

SpecStatus == InitStatus /\ [][NextStatus]_vars

(***************************************************************************)
(* What is known of the records, for the statements below.                 *)
(***************************************************************************)
\* the record of kind k that the nameservers are known to serve for n
KnownRec(n, k) ==
    IF n \in QNames /\ zone[Question(n, k)].some
    THEN find_map(zone[Question(n, k)].val, Kinds[k])
    ELSE None
\* the nameservers are known to serve no record of kind k for n
KnownEmpty(n, k) == n \in QNames /\ zone[Question(n, k)].some /\ ~KnownRec(n, k).some

RECURSIVE PlainAddr(_, _)
\* the address n resolves to by A and CNAME records alone (n has no SRV record,
\* nor has any alias on the way), following at most fuel aliases
PlainAddr(n, fuel) ==
    IF IpAddr_from_str(n).some THEN IpAddr_from_str(n)
    ELSE IF ~KnownEmpty(n, 1) THEN None
    ELSE IF KnownRec(n, 2).some THEN Some(KnownRec(n, 2).val.addr)
    ELSE IF fuel > 0 /\ KnownEmpty(n, 2) /\ KnownRec(n, 3).some
    THEN PlainAddr(KnownRec(n, 3).val.name, fuel - 1)
    ELSE None

Done(c) == cs[c].pc = "done"
\* every attempt of the call failed in transport (bind, connect, send, recv, parse)
OnlyTransportFailures(c) == ~cs[c].result.ok /\ cs[c].failures = {"transport"}

\* the attempts of tier t, in the order they were made
TierLog(c, t) == SelectSeq(cs[c].log, LAMBDA e : e.tier = t)
\* the list tier t iterates
TierList(c, t) == IF t = 1 THEN cs[c].seen.val ELSE DEFAULT_DNS_SERVERS
Failed(e) == e.outcome = "err"

C2_ARecordKeepsRequestedPort ==
    \A c \in Calls :
        LET d == req[c].domain
        IN  (Done(c) /\ KnownEmpty(d, 1) /\ KnownRec(d, 2).some) =>
                \/ cs[c].result = Ok(KnownRec(d, 2).val.addr, req[c].port)
                \/ OnlyTransportFailures(c)

C2_Witness ==
    \E c \in Calls :
        /\ Done(c) /\ KnownEmpty(req[c].domain, 1) /\ KnownRec(req[c].domain, 2).some
        /\ req[c].port = 25566
        /\ cs[c].result = Ok(<<10, 0, 0, 2>>, 25566)

(***************************************************************************)
(* C3: a domain behind a chain of three CNAME records that ends in a name  *)
(* with an A record, with no SRV record on the chain, resolves to that     *)
(* address with the requested port.                                        *)
(***************************************************************************)
\* n has a CNAME record to m and neither an SRV nor an A record
AliasOnly(n, m) ==
    /\ KnownEmpty(n, 1) /\ KnownEmpty(n, 2)
    /\ KnownRec(n, 3).some /\ KnownRec(n, 3).val.name = m

CnameChainOfThree(d) ==
    /\ d = Hosts[1]
    /\ AliasOnly(Hosts[1], Hosts[2]) /\ AliasOnly(Hosts[2], Hosts[3])
    /\ AliasOnly(Hosts[3], Hosts[4])
    /\ KnownEmpty(Hosts[4], 1) /\ KnownRec(Hosts[4], 2).some

C3_CnameChainKeepsRequestedPort ==
    \A c \in Calls :
        (Done(c) /\ CnameChainOfThree(req[c].domain)) =>
            \/ cs[c].result = Ok(KnownRec(Hosts[4], 2).val.addr, req[c].port)
            \/ OnlyTransportFailures(c)

C3_Witness ==
    \E c \in Calls :
        /\ Done(c) /\ CnameChainOfThree(req[c].domain)
        /\ req[c].port = 25566
        /\ cs[c].result = Ok(<<10, 0, 0, 2>>, 25566)
        /\ Len(cs[c].trail) = 4

(***************************************************************************)
(* C4: with a CNAME cycle a.example -> b.example -> a.example and no SRV   *)
(* or A record on either name, the chase ends with an error after a        *)
(* bounded number of hops: the recursion never runs until the stack is     *)
(* used up.                                                                *)
(***************************************************************************)
CnameCycle == AliasOnly(Hosts[1], Hosts[2]) /\ AliasOnly(Hosts[2], Hosts[1])

C4_CnameCycleEndsWithError ==
    \A c \in Calls : CnameCycle => cs[c].pc # "overflow"

(***************************************************************************)
(* C5: within one list the nameservers are tried one after another in list *)
(* order; a nameserver is contacted only after all before it have failed;  *)
(* the first success is returned and nothing is contacted after it; the    *)
(* list's failure is reported only when every nameserver of it has been    *)
(* attempted and has failed.                                               *)
(***************************************************************************)
C5_SequentialInListOrder ==
    \A c \in Calls :
        LET st == cs[c]
        IN  st.seen.some =>
              /\ \A t \in {1, 2} :
                    LET L == TierLog(c, t)
                        list == TierList(c, t)
                        reported == IF t = 1 THEN st.tier = 2
                                    ELSE Done(c) /\ ~st.result.ok
                    IN  /\ Len(L) <= Len(list)
                        /\ \A i \in 1..Len(L) : L[i].server = list[i]
                        /\ \A i \in 1..(Len(L) - 1) : Failed(L[i])
                        /\ reported =>
                              Len(L) = Len(list) /\ \A i \in 1..Len(L) : Failed(L[i])
              /\ \A i \in 1..(Len(st.log) - 1) : Failed(st.log[i])
              /\ (Done(c) /\ st.result.ok) =>
                    /\ st.log # <<>>
                    /\ st.log[Len(st.log)].outcome = "ok"
                    /\ st.result = Ok(st.log[Len(st.log)].answer[1],
                                      st.log[Len(st.log)].answer[2])
              /\ (Done(c) /\ ~st.result.ok) => st.tier = 2

C5_Witness ==
    \E c \in Calls :
        /\ Done(c) /\ cs[c].result.ok
        /\ found.some /\ Len(cs[c].seen.val) = 2
        /\ cs[c].seen.val[1] # cs[c].seen.val[2]
        /\ Len(cs[c].log) = 2
        /\ cs[c].log[1].outcome = "err"

(***************************************************************************)
(* C6: when every discovered nameserver has failed, 1.1.1.1 and then       *)
(* 1.0.0.1 are attempted before the aggregate failure is returned, and a   *)
(* success of either is the result.                                        *)
(***************************************************************************)
C6_FallbackAfterDiscoveredFail ==
    \A c \in Calls :
        LET st == cs[c]
            first == TierLog(c, 1)
            second == TierLog(c, 2)
            firstFailed == /\ st.seen.some /\ Len(first) = Len(st.seen.val)
                           /\ \A i \in 1..Len(first) : Failed(first[i])
        IN  /\ (Done(c) /\ ~st.result.ok) =>
                  /\ firstFailed
                  /\ [i \in 1..Len(second) |-> second[i].server]
                        = << <<1, 1, 1, 1>>, <<1, 0, 0, 1>> >>
                  /\ \A i \in 1..Len(second) : Failed(second[i])
            /\ (Done(c) /\ firstFailed) =>
                  /\ second # <<>>
                  /\ second[1].server = <<1, 1, 1, 1>>
                  /\ Len(second) = 2 => second[2].server = <<1, 0, 0, 1>>
                  /\ Len(second) <= 2
                  /\ second[Len(second)].outcome = "ok" =>
                        st.result = Ok(second[Len(second)].answer[1],
                                       second[Len(second)].answer[2])
            /\ second # <<>> => firstFailed

C6_Witness ==
    \E c \in Calls :
        /\ Done(c) /\ cs[c].result.ok /\ found.some
        /\ \A i \in 1..Len(TierLog(c, 1)) : TierLog(c, 1)[i].outcome = "err"
        /\ Len(TierLog(c, 2)) = 2
        /\ TierLog(c, 2)[2].server = <<1, 0, 0, 1>>

(***************************************************************************)
(* C7: the failure of one attempt, of whatever kind, is never what         *)
(* domain_lookup returns: the call goes on to the next nameserver, and the *)
(* only error it returns is the aggregate one, after both tiers.           *)
(***************************************************************************)
C7_OnlyAggregateErrorSurfaces ==
    \A c \in Calls :
        LET st == cs[c]
        IN  /\ (Done(c) /\ ~st.result.ok) =>
                  /\ st.result.err = AllServersFailed
                  /\ st.result.err \notin TransportErrors \cup {NoValidRecords, "bind", "connect"}
                  /\ Len(st.log) = Len(st.seen.val) + Len(DEFAULT_DNS_SERVERS)
            /\ (st.log # <<>> /\ Failed(st.log[Len(st.log)])) =>
                  \/ st.pc = "attempt"
                  \/ Done(c) /\ Len(st.log) = Len(st.seen.val) + Len(DEFAULT_DNS_SERVERS)

C7_Witness ==
    \E c \in Calls :
        /\ Done(c) /\ cs[c].result = Err(AllServersFailed)
        /\ cs[c].failures = {"transport", "norecords"}

(***************************************************************************)
(* C8: DNS_SERVERS is never empty: it is [1.1.1.1, 1.0.0.1] when discovery *)
(* found nothing, and the discovered, non-empty list otherwise.            *)
(***************************************************************************)
C8_ServerListNeverEmpty ==
    dnsState = "ready" =>
        /\ Len(dnsServers) > 0
        /\ ~found.some => dnsServers = << <<1, 1, 1, 1>>, <<1, 0, 0, 1>> >>
        /\ found.some => dnsServers = found.val /\ found.val # <<>>
        /\ \A c \in Calls : cs[c].seen.some => Len(cs[c].seen.val) > 0

C8_Witness ==
    /\ dnsState = "ready" /\ ~found.some
    /\ \E c \in Calls : cs[c].seen = Some(<< <<1, 1, 1, 1>>, <<1, 0, 0, 1>> >>)

(***************************************************************************)
(* C9: under every interleaving of concurrent calls, discovery runs at     *)
(* most once, all calls see the same list, and the list does not change    *)
(* once it is built.                                                       *)
(***************************************************************************)
C9_DiscoveredOnceAndShared ==
    /\ [](/\ discoveryRuns <= 1
          /\ \A c \in Calls : cs[c].seen.some =>
                dnsState = "ready" /\ cs[c].seen.val = dnsServers
          /\ \A c, d \in Calls :
                (cs[c].seen.some /\ cs[d].seen.some) => cs[c].seen = cs[d].seen)
    /\ [][dnsState = "ready" => (dnsState' = "ready" /\ dnsServers' = dnsServers)]_vars

C9_Witness ==
    /\ discoveryRuns = 1
    /\ \A c \in Calls : cs[c].seen.some /\ cs[c].pc = "query"
    /\ found.some

(***************************************************************************)
(* C10: the socket of an attempt is released when the attempt ends, on     *)
(* every exit path: a call holds at most one socket, and only while an     *)
(* attempt is querying; none when it has returned; and no two calls hold   *)
(* the same socket.                                                        *)
(***************************************************************************)
C10_SocketsReleased ==
    /\ \A c \in Calls :
          /\ Cardinality(held[c]) <= 1
          /\ Done(c) => held[c] = {}
          /\ held[c] # {} => cs[c].pc = "query" /\ held[c] = {cs[c].sock}
          /\ cs[c].pc = "query" => held[c] = {cs[c].sock}
    /\ \A c, d \in Calls : c # d => held[c] \cap held[d] = {}

C10_Witness ==
    /\ \A c \in Calls : Done(c) /\ held[c] = {} /\ Len(cs[c].log) >= 3
    /\ \E c \in Calls : cs[c].result.ok
    /\ \E c \in Calls : ~cs[c].result.ok

(***************************************************************************)
(* The questions of an attempt, for the statements below.                  *)
(***************************************************************************)
\* the place of record type t in the order of the queries
KindIndex(t) == CHOOSE k \in 1..Len(Kinds) : Kinds[k] = t
\* the domain a question was asked for
AskedDomain(p) == p.q.name[Len(p.q.name)]
\* the nameservers are known to answer question p with no record of its type
NoAnswer(p) == KnownEmpty(AskedDomain(p), KindIndex(p.q.type))
\* question j of S directly follows a question of type t for the same name in
\* the same hop
Follows(S, j, t) ==
    /\ j > 1 /\ S[j - 1].q.type = t /\ S[j - 1].hop = S[j].hop
    /\ AskedDomain(S[j - 1]) = AskedDomain(S[j])
\* the last attempt of call c has returned
AttemptReturned(c) == cs[c].pc \in {"attempt", "done"} /\ cs[c].log # <<>>
\* the questions of hop h
HopQuestions(S, h) == SelectSeq(S, LAMBDA p : p.hop = h)

(***************************************************************************)
(* C11: the record kinds of a name are asked for in the order SRV, CNAME,  *)
(* A, as the documentation comments of domain_lookup,                      *)
(* domain_lookup_with_servers and domain_lookup_individual state: a CNAME  *)
(* question directly follows the SRV question for the name, and an A       *)
(* question directly follows the CNAME question for the name.              *)
(***************************************************************************)
C11_OrderOfDocComment ==
    \A c \in Calls :
        LET S == cs[c].sent
        IN  \A j \in 1..Len(S) :
              /\ S[j].q.type = "CNAME" => Follows(S, j, "SRV")
              /\ S[j].q.type = "A" => Follows(S, j, "CNAME")

C13_ThreeQueriesPerAttempt ==
    \A c \in Calls :
        LET S == cs[c].sent
        IN  /\ \A i, j \in 1..Len(S) : S[i].sock = S[j].sock
            /\ Len(S) <= 3
            /\ \A i, j \in 1..Len(S) : i # j => S[i].q.type # S[j].q.type
            /\ (AttemptReturned(c) /\ cs[c].ret = Err("norecords")) =>
                  { S[i].q.type : i \in 1..Len(S) } = {"SRV", "A", "CNAME"}

(***************************************************************************)
(* C13 as amended: an attempt opens at most one socket and sends all its   *)
(* questions over it; for each hop of the chase it sends at most one       *)
(* question per record kind, at most three per hop; and it returns only    *)
(* with success, with a transport failure, or with 'no valid records'      *)
(* after all three kinds were asked for the last name.                     *)
(***************************************************************************)
C13_ThreeQueriesPerHop ==
    \A c \in Calls :
        LET S == cs[c].sent
            st == cs[c]
        IN  /\ Cardinality(held[c]) <= 1
            /\ \A i \in 1..Len(S) :
                  /\ S[i].sock \in Fds /\ S[i].sock = S[1].sock
                  /\ st.pc = "query" => S[i].sock = st.sock /\ held[c] = {st.sock}
                  /\ i > 1 => S[i].hop \in {S[i - 1].hop, S[i - 1].hop + 1}
                  /\ Len(HopQuestions(S, S[i].hop)) <= 3
                  /\ \A j \in 1..Len(S) :
                        (i # j /\ S[i].hop = S[j].hop) => S[i].q.type # S[j].q.type
            /\ AttemptReturned(c) =>
                  \/ st.ret.ok /\ S # <<>>
                  \/ st.ret = Err("transport")
                  \/ /\ st.ret = Err("norecords") /\ S # <<>>
                     /\ LET last == HopQuestions(S, S[Len(S)].hop)
                        IN  [i \in 1..Len(last) |-> last[i].q.type]
                               = <<"SRV", "A", "CNAME">>

C13_Witness ==
    \E c \in Calls :
        /\ AttemptReturned(c) /\ cs[c].ret.ok
        /\ Len(cs[c].sent) = 8
        /\ cs[c].sent[8].hop = 3

(***************************************************************************)
(* C14: when the domain is already the text of an address, a call returns  *)
(* an address only after the questions for that text were sent, starting   *)
(* with the SRV question, and the address comes from a record that was     *)
(* served; the text itself is never parsed and returned, so the call fails *)
(* when the nameservers serve no record for it.                            *)
(***************************************************************************)
C14_LiteralDomainIsQueried ==
    \A c \in Calls :
        LET st == cs[c]
            lit == req[c].domain
        IN  IpAddr_from_str(lit).some =>
              /\ (AttemptReturned(c) /\ st.ret.ok) =>
                    /\ st.sent # <<>>
                    /\ st.sent[1].q = [name |-> <<"_minecraft._tcp", lit>>, type |-> "SRV"]
                    /\ st.trail # <<>>
                    /\ KnownRec(lit, KindIndex(st.trail[1].kind)).some
                    /\ IpAddr_from_str(st.trail[Len(st.trail)].to) = Some(st.ret.ip)
              /\ (Done(c) /\ st.result.ok) => st.result = st.ret
              /\ (Done(c) /\ \A k \in 1..Len(Kinds) : ~KnownRec(lit, k).some) =>
                    st.result = Err(AllServersFailed)

C14_Witness ==
    \E c \in Calls :
        /\ IpAddr_from_str(req[c].domain).some
        /\ Done(c) /\ cs[c].result = Err(AllServersFailed)
        /\ \A k \in 1..Len(Kinds) : KnownEmpty(req[c].domain, k)
        /\ Len(cs[c].sent) = 3

(***************************************************************************)
(* The system find_servers() runs on, for the statements below.            *)
(***************************************************************************)
UnixDone == disc.platform = "unix" /\ disc.pc = "done"
WindowsDone == disc.platform = "windows" /\ disc.pc = "done"
\* a line that is the prefix "nameserver " followed by the text of an address
NameserverLine(line) ==
    /\ Len(line) = 3 /\ line[1] = "nameserver" /\ line[2] = " "
    /\ \E e \in IpText : e[1] = line[3]
\* the address such a line names
LineAddress(line) == (CHOOSE e \in IpText : e[1] = line[3])[2]
\* the addresses of the nameserver lines of a file, in file order
NamedInFile(lines) ==
    LET named == SelectSeq(lines, NameserverLine)
    IN  [i \in 1..Len(named) |-> LineAddress(named[i])]

\* the adapter and the entry of the enumeration that an address comes from
OwnerOf(addr) == addr[3]
EntryOf(addr) == addr[4]
\* every DNS entry of the adapter has the family IPv4 or IPv6
Supported(a) == \A e \in 1..Len(a.dns) : a.dns[e].family \in {AF_INET, AF_INET6}
MinMetric(a) ==
    IF a.ipv4_metric <= a.ipv6_metric THEN a.ipv4_metric ELSE a.ipv6_metric
\* both calls of GetAdaptersAddresses returned the code find_servers expects
BothCallsAsExpected ==
    /\ Len(disc.calls) = 2
    /\ disc.calls[1].rc = ERROR_BUFFER_OVERFLOW /\ disc.calls[2].rc = ERROR_SUCCESS
\* in the result, all servers of adapter a stand before all servers of adapter b
ListedBefore(R, a, b) ==
    \A i, j \in 1..Len(R) : (OwnerOf(R[i]) = a /\ OwnerOf(R[j]) = b) => i < j

(***************************************************************************)
(* C15: unix discovery yields, in file order, exactly the addresses of the *)
(* lines that are 'nameserver ' followed by the text of an address; every  *)
(* other line is skipped and does not make discovery fail.  The lines      *)
(* 'nameserver 8.8.8.8', 'garbage', 'nameserver 1.1.1.1' yield             *)
(* [8.8.8.8, 1.1.1.1].                                                     *)
(***************************************************************************)
C15_UnixNameserverLinesInOrder ==
    (UnixDone /\ disc.conf.some) =>
        /\ disc.result.some => disc.result.val = NamedInFile(disc.conf.val)
        /\ NamedInFile(disc.conf.val) # <<>> => disc.result.some
        /\ disc.conf.val = << <<"nameserver", " ", "8.8.8.8">>, <<"garbage">>,
                              <<"nameserver", " ", "1.1.1.1">> >>
              => disc.result = Some(<< <<8, 8, 8, 8>>, <<1, 1, 1, 1>> >>)

C15_Witness ==
    /\ UnixDone
    /\ disc.conf = Some(<< <<"nameserver", " ", "8.8.8.8">>, <<"garbage">>,
                           <<"nameserver", " ", "1.1.1.1">> >>)
    /\ disc.result = Some(<< <<8, 8, 8, 8>>, <<1, 1, 1, 1>> >>)

(***************************************************************************)
(* C16: unix discovery returns 'no servers' (None) when the file cannot be *)
(* read and when it has no valid nameserver line, and Some(list) only with *)
(* a list that is not empty; it has no other outcome.                      *)
(***************************************************************************)
C16_UnixNoneWhenNothingFound ==
    UnixDone =>
        /\ ~disc.conf.some => disc.result = None
        /\ (disc.conf.some /\ \A i \in 1..Len(disc.conf.val) :
                                 ~NameserverLine(disc.conf.val[i]))
              => disc.result = None
        /\ disc.result.some => Len(disc.result.val) > 0
        /\ disc.result.some <=>
              /\ disc.conf.some
              /\ \E i \in 1..Len(disc.conf.val) : NameserverLine(disc.conf.val[i])

C16_Witness ==
    /\ UnixDone /\ disc.result = None
    /\ disc.conf.some /\ Len(disc.conf.val) = 2
    /\ disc.conf.val[1] = <<"nameserver", " ", " ", "8.8.8.8">>

(***************************************************************************)
(* C17 as stated: with two adapters whose ipv4 metrics are 5 and 1, the    *)
(* servers of the adapter with ipv4 metric 1 are listed before those of    *)
(* the other adapter, in whichever order the two were enumerated.          *)
(***************************************************************************)
C17_Ipv4MetricOneFirst ==
    (WindowsDone /\ disc.result.some /\ Len(disc.adapters) = 2) =>
        \A a, b \in 1..2 :
            (disc.adapters[a].ipv4_metric = 1 /\ disc.adapters[b].ipv4_metric = 5)
                => ListedBefore(disc.result.val, a, b)

(***************************************************************************)
(* C17 as amended: with two adapters whose min(ipv4_metric, ipv6_metric)   *)
(* are 5 and 1, the servers of the adapter with min-metric 1 are listed    *)
(* before those of the other adapter, in whichever order the two were      *)
(* enumerated.                                                             *)
(***************************************************************************)
C17_MinMetricOneFirst ==
    (WindowsDone /\ disc.result.some /\ Len(disc.adapters) = 2) =>
        \A a, b \in 1..2 :
            (MinMetric(disc.adapters[a]) = 1 /\ MinMetric(disc.adapters[b]) = 5)
                => ListedBefore(disc.result.val, a, b)

C17_Witness ==
    /\ WindowsDone /\ Len(disc.adapters) = 2
    /\ disc.adapters[1].ipv4_metric = 5 /\ MinMetric(disc.adapters[1]) = 5
    /\ disc.adapters[2].ipv4_metric = 1 /\ MinMetric(disc.adapters[2]) = 1
    /\ disc.result = Some(<< <<10, 0, 2, 1>>, <<10, 0, 2, 2>>, <<10, 0, 1, 1>> >>)

(***************************************************************************)
(* C18: the result of windows discovery is the concatenation of the        *)
(* adapters' server lists in ascending order of min(ipv4_metric,           *)
(* ipv6_metric): of two servers, the one listed first belongs to an        *)
(* adapter whose min-metric is not larger; the servers of one adapter      *)
(* stand together and keep their enumeration order; and every server of    *)
(* every adapter with IPv4 and IPv6 entries only is listed, once.          *)
(***************************************************************************)
C18_AscendingMinMetricConcatenation ==
    WindowsDone =>
        LET E == disc.adapters
            R == disc.result.val
            n == Len(R)
        IN  /\ disc.result.some =>
                  /\ \A i \in 1..n :
                        /\ OwnerOf(R[i]) \in 1..Len(E)
                        /\ EntryOf(R[i]) \in 1..Len(E[OwnerOf(R[i])].dns)
                        /\ E[OwnerOf(R[i])].dns[EntryOf(R[i])].addr = R[i]
                  /\ \A i, j \in 1..n : i < j =>
                        /\ R[i] # R[j]
                        /\ MinMetric(E[OwnerOf(R[i])]) <= MinMetric(E[OwnerOf(R[j])])
                        /\ OwnerOf(R[i]) = OwnerOf(R[j]) => EntryOf(R[i]) < EntryOf(R[j])
                        /\ \A k \in 1..n :
                              (i < k /\ k < j /\ OwnerOf(R[i]) = OwnerOf(R[j]))
                                  => OwnerOf(R[k]) = OwnerOf(R[i])
            /\ BothCallsAsExpected =>
                  \A a \in 1..Len(E) : Supported(E[a]) =>
                      \A e \in 1..Len(E[a].dns) :
                          /\ disc.result.some
                          /\ \E i \in 1..n : R[i] = E[a].dns[e].addr

C18_Witness ==
    /\ WindowsDone /\ Len(disc.adapters) = 2
    /\ MinMetric(disc.adapters[1]) = MinMetric(disc.adapters[2])
    /\ disc.result = Some(<< <<10, 0, 2, 1>>, <<10, 0, 2, 2>>,
                             <<10, 0, 1, 1>>, <<10, 0, 1, 2>> >>)

(***************************************************************************)
(* C19: when a DNS entry of an adapter has an address family other than    *)
(* IPv4 and IPv6, windows discovery returns 'no servers found' and never a *)
(* list built from the other entries or adapters.                          *)
(***************************************************************************)
C19_UnknownFamilyAbortsDiscovery ==
    (WindowsDone /\ \E a \in 1..Len(disc.adapters) : ~Supported(disc.adapters[a]))
        => disc.result = None

(***************************************************************************)
(* C20: windows discovery calls GetAdaptersAddresses at most twice, first  *)
(* with a buffer of length zero; the sized call is made if and only if the *)
(* first returned ERROR_BUFFER_OVERFLOW; the adapter list is read only     *)
(* after the sized call returned ERROR_SUCCESS; and any other return code  *)
(* of either call ends discovery with 'no servers found', nothing read.    *)
(***************************************************************************)
C20_TwoPhaseHandshake ==
    LET calls == disc.calls
    IN  disc.platform = "windows" =>
        /\ Len(calls) <= 2
        /\ Len(calls) >= 1 => calls[1].buf_len = "zero"
        /\ Len(calls) = 2 =>
              calls[2].buf_len = "sized" /\ calls[1].rc = ERROR_BUFFER_OVERFLOW
        /\ (disc.visited > 0 \/ disc.result.some) => BothCallsAsExpected
        /\ WindowsDone =>
              /\ Len(calls) >= 1
              /\ calls[1].rc = ERROR_BUFFER_OVERFLOW => Len(calls) = 2
              /\ ~BothCallsAsExpected => disc.result = None /\ disc.visited = 0
              /\ BothCallsAsExpected => disc.visited = Len(disc.adapters)
        /\ (disc.pc = "sized") =>
              Len(calls) = 1 /\ calls[1].rc = ERROR_BUFFER_OVERFLOW /\ disc.visited = 0

C20_Witness ==
    /\ WindowsDone /\ Len(disc.adapters) = 2 /\ Supported(disc.adapters[1])
    /\ Len(disc.adapters[1].dns) > 0
    /\ Len(disc.calls) = 2 /\ disc.calls[1].rc = ERROR_BUFFER_OVERFLOW
    /\ disc.calls[2].rc = ERROR_BUFFER_OVERFLOW
    /\ disc.result = None /\ disc.visited = 0

(***************************************************************************)
(* The chase of an attempt, for the statements below.                      *)
(***************************************************************************)
\* the port the chase has after the first i records of trail T, for a call
\* that asked for port q
PortAfter(T, i, q) == IF i = 0 THEN q ELSE T[i].port
\* the places of the SRV records in trail T
SrvSteps(T) == { i \in 1..Len(T) : T[i].kind = "SRV" }
\* the greatest element of a non-empty set of numbers
Greatest(S) == CHOOSE i \in S : \A j \in S : j <= i

(***************************************************************************)
(* C21: in a chase the port changes only when an SRV record is adopted,    *)
(* and then to the port of that record; an A or a CNAME record leaves it   *)
(* as it is.  The port returned is the port of the last SRV record adopted *)
(* in the chase, or the requested port if none was adopted.                *)
(***************************************************************************)
C21_PortChangesOnlyOnSrv ==
    \A c \in Calls :
        LET st == cs[c]
            T == st.trail
            q == req[c].port
        IN  /\ \A i \in 1..Len(T) :
                  /\ T[i].kind \in {"A", "CNAME"} => T[i].port = PortAfter(T, i - 1, q)
                  /\ T[i].kind = "SRV" =>
                        /\ KnownRec(T[i].name, 1).some
                        /\ T[i].port = KnownRec(T[i].name, 1).val.port
            /\ st.pc = "query" => st.port = PortAfter(T, Len(T), q)
            /\ (AttemptReturned(c) /\ st.ret.ok) =>
                  st.ret.port = IF SrvSteps(T) = {} THEN q
                                ELSE T[Greatest(SrvSteps(T))].port
            /\ (Done(c) /\ st.result.ok) => st.result.port = st.ret.port

C21_Witness ==
    \E c \in Calls :
        LET T == cs[c].trail
        IN  /\ Done(c) /\ cs[c].result.ok
            /\ Len(T) = 4
            /\ T[1].kind = "SRV" /\ T[1].port = 25565
            /\ T[2].kind = "SRV" /\ T[2].port = 25566
            /\ T[3].kind = "CNAME" /\ T[4].kind = "A"
            /\ req[c].port = 25565
            /\ cs[c].result.port = 25566

(***************************************************************************)
(* C23: when an attempt over DNS_SERVERS succeeds, domain_lookup returns   *)
(* its result and the default servers are not run: no attempt is made on   *)
(* behalf of the second list.                                              *)
(***************************************************************************)
C23_NoFallbackAfterSuccess ==
    \A c \in Calls :
        LET st == cs[c]
            first == TierLog(c, 1)
        IN  \A i \in 1..Len(first) :
                first[i].outcome = "ok" =>
                    /\ i = Len(first)
                    /\ TierLog(c, 2) = <<>>
                    /\ st.tier = 1
                    /\ Done(c)
                    /\ st.result = Ok(first[i].answer[1], first[i].answer[2])

C23_Witness ==
    \E c \in Calls :
        /\ Done(c) /\ cs[c].result.ok /\ cs[c].tier = 1
        /\ found.some /\ Len(cs[c].seen.val) = 2
        /\ Len(cs[c].log) = 1
        /\ cs[c].log[1].server \notin { <<1, 1, 1, 1>>, <<1, 0, 0, 1>> }

(***************************************************************************)
(* C24: every attempt starts its chase from the (domain, port) the caller  *)
(* asked for: what an attempt that failed had adopted is not carried over  *)
(* to the next nameserver or to the default servers.                       *)
(***************************************************************************)
C24_AttemptStartsFromRequest ==
    \A c \in Calls :
        LET st == cs[c]
        IN  /\ (st.pc = "query" /\ st.sent = <<>>) =>
                  /\ st.name = req[c].domain /\ st.port = req[c].port
                  /\ st.trail = <<>> /\ st.kind = 1
            /\ st.sent # <<>> =>
                  /\ st.sent[1].q = Question(req[c].domain, 1)
                  /\ st.sent[1].hop = 1
            /\ (st.pc = "query" /\ st.trail # <<>>) =>
                  /\ st.trail[1].name = req[c].domain
                  /\ st.trail[1].kind # "SRV" => st.trail[1].port = req[c].port

\* an attempt that had adopted another name and another port has failed, and
\* the next attempt is about to start
C24_Witness ==
    \E c \in Calls :
        LET st == cs[c]
        IN  /\ st.pc = "attempt" /\ st.ret = Err("transport")
            /\ st.trail # <<>> /\ st.name # req[c].domain /\ st.port # req[c].port
            /\ st.tier = 2 /\ st.idx = 1

(***************************************************************************)
(* C26: when discovery finds nothing, DNS_SERVERS is [1.1.1.1, 1.0.0.1],   *)
(* and a call in which every attempt fails attempts 1.1.1.1, 1.0.0.1 for   *)
(* DNS_SERVERS and then 1.1.1.1, 1.0.0.1 again for the default servers     *)
(* before it returns the aggregate error.                                  *)
(***************************************************************************)
C26_DefaultsTriedTwice ==
    \A c \in Calls :
        LET st == cs[c]
        IN  (Done(c) /\ ~found.some /\ ~st.result.ok) =>
              /\ st.seen = Some(<< <<1, 1, 1, 1>>, <<1, 0, 0, 1>> >>)
              /\ [i \in 1..Len(st.log) |-> <<st.log[i].tier, st.log[i].server>>]
                    = << <<1, <<1, 1, 1, 1>> >>, <<1, <<1, 0, 0, 1>> >>,
                         <<2, <<1, 1, 1, 1>> >>, <<2, <<1, 0, 0, 1>> >> >>
              /\ \A i \in 1..Len(st.log) : Failed(st.log[i])
              /\ st.result = Err(AllServersFailed)

C26_Witness ==
    \E c \in Calls :
        /\ Done(c) /\ ~found.some /\ cs[c].result = Err(AllServersFailed)
        /\ Len(cs[c].log) = 4
        /\ cs[c].failures = {"transport"}

(***************************************************************************)
(* The exchanges of an attempt, for the statement below.                   *)
(***************************************************************************)
\* the record find_record! takes from the packet of exchange x: the first
\* answer of the kind asked for, in the packet that was read
Taken(x) == find_map(zone[x.re.val].val, x.q.type)
\* the name a record of this kind leads to
LeadsTo(kind, rec) == IF kind = "A" THEN IpAddr_to_string(rec.addr) ELSE rec.name

(***************************************************************************)
(* C22: each query is one packet sent and one receive.  A query that       *)
(* fails (send error, receive error or timeout, unreadable packet) is not  *)
(* sent again on that socket: it is the last of the attempt, which fails   *)
(* at once without asking for the remaining record kinds.  The one packet  *)
(* read is taken as the answer to the query just sent, whatever question   *)
(* it repeats: the chase goes on from the first record of the kind asked   *)
(* for that the packet holds.                                              *)
(***************************************************************************)
C22_OneExchangeNoValidation ==
    \A c \in Calls :
        LET st == cs[c]
            S == st.sent
        IN  /\ \A i \in 1..Len(S) :
                  \* a failed query is the last one, and the attempt has failed
                  /\ ~S[i].re.some =>
                        /\ i = Len(S)
                        /\ st.pc \in {"attempt", "done"}
                        /\ st.ret = Err("transport")
                        /\ S[i].sock \notin held[c]
                  \* within one call of domain_lookup_inner no question is
                  \* sent twice
                  /\ \A j \in 1..Len(S) :
                        (i < j /\ S[i].hop = S[j].hop) => S[i].q # S[j].q
                  \* the packet read decides what follows
                  /\ (S[i].re.some /\ Taken(S[i]).some) =>
                        /\ Len(st.trail) >= S[i].hop
                        /\ st.trail[S[i].hop].kind = S[i].q.type
                        /\ st.trail[S[i].hop].to =
                              LeadsTo(S[i].q.type, Taken(S[i]).val)
                        /\ i < Len(S) => S[i + 1].hop = S[i].hop + 1
                  /\ (S[i].re.some /\ ~Taken(S[i]).some) =>
                        /\ Len(st.trail) < S[i].hop
                              \/ st.trail[S[i].hop].kind # S[i].q.type
                        /\ i < Len(S) =>
                              /\ S[i + 1].hop = S[i].hop
                              /\ KindIndex(S[i + 1].q.type) = KindIndex(S[i].q.type) + 1
                        /\ (i = Len(S) /\ st.pc # "query") =>
                              /\ S[i].q.type = Kinds[Len(Kinds)]
                              /\ st.ret = Err("norecords")

\* an attempt has adopted a record from a packet that answers another
\* question, and then failed at once on the SRV query for the name adopted
C22_Witness ==
    \E c \in Calls :
        LET st == cs[c]
            S == st.sent
        IN  /\ st.pc = "attempt" /\ st.ret = Err("transport")
            /\ Len(S) >= 2
            /\ ~S[Len(S)].re.some /\ S[Len(S)].q.type = "SRV"
            /\ S[Len(S)].hop = 2
            /\ \E i \in 1..Len(S) - 1 :
                  /\ S[i].re.some /\ S[i].re.val # S[i].q
                  /\ Taken(S[i]).some

(***************************************************************************)
(* The records reachable from a domain, for the statement below.           *)
(***************************************************************************)
\* some SRV or CNAME record of n in z points to t
Edge(z, n, t) ==
    \E k \in 1..Len(Kinds) :
        /\ z[Question(n, k)].some
        /\ \E i \in 1..Len(z[Question(n, k)].val) :
              /\ z[Question(n, k)].val[i].type \in {"SRV", "CNAME"}
              /\ z[Question(n, k)].val[i].name = t
RECURSIVE ReachableIn(_, _, _)
\* the names reached from those of S by at most k records
ReachableIn(z, S, k) ==
    IF k = 0 THEN S
    ELSE ReachableIn(z, S \cup { t \in QNames : \E n \in S : Edge(z, n, t) }, k - 1)
\* no name reachable from d in z is reachable from itself
NoCycleFrom(z, d) ==
    \A n \in ReachableIn(z, {d}, Len(Hosts)) :
        n \notin ReachableIn(z, { t \in QNames : Edge(z, n, t) }, Len(Hosts))
\* every question has its answer
AllAnswered(z) == \A q \in Questions : z[q].some

(***************************************************************************)
(* C25: when the records reachable from the domain contain no cycle and    *)
(* every query gets a response or times out, a call of domain_lookup       *)
(* eventually returns, with a result or with the aggregate error.          *)
(***************************************************************************)
C25_AcyclicLookupReturns ==
    \A c \in Calls :
        (/\ c \in callers
         /\ AllAnswered(zone)
         /\ NoCycleFrom(zone, req[c].domain))
            ~> (/\ Done(c)
                /\ cs[c].result.ok \/ cs[c].result = Err(AllServersFailed))

\* a call over the chain through all hosts has returned its address, after
\* attempts that timed out
C25_Witness ==
    \E c \in Calls :
        /\ AllAnswered(zone) /\ NoCycleFrom(zone, req[c].domain)
        /\ Done(c) /\ cs[c].result = Ok(<<10, 0, 0, 2>>, 25566)
        /\ Len(cs[c].trail) = Len(Hosts)
        /\ cs[c].tier = 2 /\ "transport" \in cs[c].failures

(***************************************************************************)
(* The status service, for the statement below.                            *)
(***************************************************************************)
\* the names of the configured servers
ConfiguredNames == { svc.config[i].server : i \in 1..Len(svc.config) }
\* the shared status exists
StatusCreated == svc.main \in {"spawn", "serve"}

(***************************************************************************)
(* C27: in the status service the key set of the shared status map is the  *)
(* set of the configured server names in every state, however the refresh  *)
(* tasks and the HTTP handlers interleave: update_status overwrites only   *)
(* the entry of its own server, so the lookup of serve_single_status for a *)
(* configured server always finds an entry.                                *)
(***************************************************************************)
C27_StatusKeysAreConfiguredNames ==
    StatusCreated =>
        /\ DOMAIN svc.status = ConfiguredNames
        /\ \A i \in 1..Len(svc.config) : get(svc.status, svc.config[i].server).some
        /\ \A h \in Handlers :
              /\ svc.handlers[h].pc # "panicked"
              /\ svc.handlers[h].pc = "render" =>
                    /\ svc.handlers[h].server \in ConfiguredNames
                    /\ svc.handlers[h].out = Some(svc.status[svc.handlers[h].server])

\* while one handler holds the entry of the first server and the other has
\* cloned the whole map, the task of the second server, whose name differs
\* only by its port, has written a response and the first has one to write
C27_Witness ==
    /\ svc.main = "serve" /\ Len(svc.config) = 2
    /\ svc.config[1].server = <<"a.example">>
    /\ svc.config[2].server = <<"a.example", ":", "25566">>
    /\ svc.handlers[1].pc = "render" /\ svc.handlers[1].server = svc.config[1].server
    /\ svc.handlers[2].pc = "render_all"
    /\ svc.status[svc.config[2].server] = Some("java")
    /\ svc.tasks[1] = [pc |-> "write", new |-> Some("bedrock")]

====
